---- MODULE Spec2Model ----
(***************************************************************************)
(* Model of the per-repository file set of package files (src/files/set.go *)
(* and src/files/bolt.go): the in-memory reconciliation tables, the bolt   *)
(* store they are written through to, and the process-wide lamport clock.  *)
(***************************************************************************)
EXTENDS Integers, Sequences, FiniteSets, TLC

\* ------------------------------------------------------------------ bounds
\* Connection ids 0 .. MaxPeer stand for the 64 slots of remoteKey/changes.
MaxPeer == 1
\* Versions of the files handed to the set are 1 .. MaxVersion.
MaxVersion == 2
\* Longest list handed to Replace, ReplaceWithDelete or Update.
MaxLen == 2
\* The change counters are driven no higher than this in total.
MaxChanges == 3
\* The lamport clock is driven no higher than this.
MaxClock == 3
\* Goroutines calling into the set at the same time.
MaxThreads == 2
\* Modification times of the entries the walker sees are 1 .. MaxMtime.
MaxMtime == 2

\* ------------------------------------------------------- program constants
\* Highest connection id Replace and ReplaceWithDelete accept.
MaxConnID == 63
\* cid.LocalID, the slot of this node's own scan.
LocalID == 0

Peers == 0 .. MaxPeer
Names == {"a", "b"}
Versions == 1 .. MaxVersion
repo == "default"

\* ------------------------------------------------------------ file records
\* scanner.File as far as the set reads it: Flags is reduced to the Deleted
\* bit, Blocks to the number of blocks. Modified is never read by the set.
File(n, v, del, sup, nb, sz) ==
    [Name |-> n, Version |-> v, Deleted |-> del, Suppressed |-> sup,
     Blocks |-> nb, Size |-> sz]

\* The zero value of scanner.File, what a lookup of a missing map entry gives.
ZeroFile == File("", 0, FALSE, FALSE, 0, 0)

\* Files a caller hands in: a regular file has one block and size 1, a
\* deleted one has no blocks and size 0, a suppressed one is a regular file
\* with the Suppressed mark.
Kinds == {"file", "deleted", "suppressed"}
InputFile(n, v, k) ==
    File(n, v, k = "deleted", k = "suppressed",
         IF k = "deleted" THEN 0 ELSE 1, IF k = "deleted" THEN 0 ELSE 1)
PlainFiles == { InputFile(n, v, "file") : n \in Names, v \in Versions }
FlaggedFiles == { InputFile(n, v, k) : n \in Names, v \in Versions, k \in Kinds }

\* The lists over F of length at most k; a name may occur more than once.
RECURSIVE ListsUpTo(_, _)
ListsUpTo(F, k) ==
    IF k = 0 THEN { <<>> }
    ELSE LET shorter == ListsUpTo(F, k - 1)
         IN  shorter \cup
             { Append(l, f) : l \in { s \in shorter : Len(s) = k - 1 }, f \in F }

\* Spec hands in lists of regular files, SpecFlags lists of at most one file
\* of any kind.
InputLists == ListsUpTo(PlainFiles, MaxLen)
FlaggedLists == ListsUpTo(FlaggedFiles, 1)

\* key, keyFor and newerThan: the identity (name, version) of a file and the
\* strict order on versions.
key(n, v) == [Name |-> n, Version |-> v]
ZeroKey == key("", 0)
keyFor(f) == key(f.Name, f.Version)
newerThan(a, b) == a.Version > b.Version

\* protocol.IsDeleted on the reduced flags.
IsDeleted(f) == f.Deleted

\* fileRecord and its zero value.
fileRecord(f, u, g) == [File |-> f, Usage |-> u, Global |-> g]
ZeroRecord == fileRecord(ZeroFile, 0, FALSE)

\* Go map read: the stored value, or the zero value when the key is missing.
Lookup(m, k, zero) == IF k \in DOMAIN m THEN m[k] ELSE zero
\* Go map write and delete.
Store(m, k, v) == (k :> v) @@ m
Delete(m, k) == [x \in (DOMAIN m) \ {k} |-> m[x]]
EmptyMap == [x \in {} |-> x]

\* bitset: a 64 bit word; bit i is 2^i.
HasBit(av, i) == (av \div (2 ^ i)) % 2 = 1
SetBit(av, i) == IF HasBit(av, i) THEN av ELSE av + 2 ^ i
OneBit(i) == 2 ^ i

\* lamport.Default.Tick(v): the clock moves past itself and past v.
TickValue(c, v) == (IF v > c THEN v ELSE c) + 1

\* MarshalXDR / UnmarshalXDR of scanner.File: the encoding carries name, flags,
\* modified, version, size and blocks; Suppressed is not part of it.
MarshalXDR(f) ==
    [Name |-> f.Name, Version |-> f.Version, Deleted |-> f.Deleted,
     Blocks |-> f.Blocks, Size |-> f.Size]
UnmarshalXDR(e) ==
    File(e.Name, e.Version, e.Deleted, FALSE, e.Blocks, e.Size)

VARIABLES
    files,               \* map[key]fileRecord
    remoteKey,           \* per connection id: [nil, keys: map[string]key]
    changes,             \* per connection id: change counter
    globalAvailability,  \* map[string]bitset
    globalKey,           \* map[string]key
    globalVersion,       \* map[string]uint64
    db,                  \* bolt: peer bucket -> repo bucket -> name -> encoded file
    clock,               \* lamport.Default
    fatal,               \* the process has ended in l.Fatalln or a panic
    inflight,            \* per goroutine: the call between its store
                         \* transaction and its locked part, if any
    walker               \* the Walker, its directory tree and its result

vars == <<files, remoteKey, changes, globalAvailability, globalKey,
          globalVersion, db, clock, fatal, inflight, walker>>

\* The in-memory tables that update and replace work on.
Mem == [files |-> files, remoteKey |-> remoteKey,
        globalAvailability |-> globalAvailability, globalKey |-> globalKey]

NilMap == [nil |-> TRUE, keys |-> EmptyMap]
MakeMap == [nil |-> FALSE, keys |-> EmptyMap]

\* ------------------------------------------------------------------ update
\* One round of the loop of Set.update: fold file f of peer cid into m.
updateOne(m, cid, f) ==
    LET n == f.Name
        fk == keyFor(f)
        remFiles == m.remoteKey[cid].keys
    IN  IF n \in DOMAIN remFiles /\ remFiles[n] = fk
        THEN m  \* the remote already has exactly this file
        ELSE
          LET rk1 == [m.remoteKey EXCEPT ![cid].keys = Store(remFiles, n, fk)]
              \* keep the block list or increment the usage
              files1 == IF fk \notin DOMAIN m.files
                        THEN Store(m.files, fk, fileRecord(f, 1, FALSE))
                        ELSE [m.files EXCEPT ![fk].Usage = @ + 1]
              ok == n \in DOMAIN m.globalKey
              gk == Lookup(m.globalKey, n, ZeroKey)
          IN  CASE ok /\ fk = gk ->
                     [files |-> files1, remoteKey |-> rk1,
                      globalKey |-> m.globalKey,
                      globalAvailability |->
                          Store(m.globalAvailability, n,
                                SetBit(Lookup(m.globalAvailability, n, 0), cid))]
                [] ~(ok /\ fk = gk) /\ newerThan(fk, gk) ->
                     LET files2 == IF ok
                                   THEN Store(files1, gk,
                                          [Lookup(files1, gk, ZeroRecord)
                                              EXCEPT !.Global = FALSE])
                                   ELSE files1
                         files3 == Store(files2, fk,
                                          [Lookup(files2, fk, ZeroRecord)
                                              EXCEPT !.Global = TRUE])
                     IN  [files |-> files3, remoteKey |-> rk1,
                          globalKey |-> Store(m.globalKey, n, fk),
                          globalAvailability |->
                              Store(m.globalAvailability, n, OneBit(cid))]
                [] OTHER ->
                     [files |-> files1, remoteKey |-> rk1,
                      globalKey |-> m.globalKey,
                      globalAvailability |-> m.globalAvailability]

\* Set.update past its nil check: the loop over fs, in order.
RECURSIVE update(_, _, _)
update(m, cid, fs) ==
    IF fs = <<>> THEN m
    ELSE update(updateOne(m, cid, Head(fs)), cid, Tail(fs))

\* ----------------------------------------------------------------- replace
\* The first loop of Set.replace deleting every record the peer refers to,
\* whatever its usage.
releaseUsageDropsShared(fs, rem) ==
    LET held == { rem[n] : n \in DOMAIN rem }
    IN  [k \in (DOMAIN fs) \ held |-> fs[k]]

\* First loop of Set.replace: release the records peer cid refers to. Each
\* name maps to a key of that name, so the rounds touch distinct records.
releaseUsage(fs, rem) ==
    LET held == { rem[n] : n \in DOMAIN rem }
        gone == { k \in held : k \in DOMAIN fs /\ fs[k].Usage = 1 }
    IN  [k \in (DOMAIN fs) \ gone |->
            IF k \in held /\ fs[k].Usage > 1
            THEN [fs[k] EXCEPT !.Usage = @ - 1]
            ELSE fs[k]]

\* Inner loop of the recalculation: peers i .. MaxPeer in ascending order,
\* nk the newest key so far and na its availability.
RECURSIVE newest(_, _, _, _, _)
newest(rk, n, i, nk, na) ==
    IF i > MaxPeer THEN [nk |-> nk, na |-> na]
    ELSE LET rem == rk[i].keys
         IN  IF n \in DOMAIN rem
             THEN CASE rem[n] = nk -> newest(rk, n, i + 1, nk, SetBit(na, i))
                    [] rem[n] # nk /\ newerThan(rem[n], nk) ->
                           newest(rk, n, i + 1, rem[n], OneBit(i))
                    [] OTHER -> newest(rk, n, i + 1, nk, na)
             ELSE newest(rk, n, i + 1, nk, na)

\* Recalculation of the global view for the names of todo.
RECURSIVE recalculate(_, _)
recalculate(m, todo) ==
    IF todo = {} THEN m
    ELSE LET n == CHOOSE x \in todo : TRUE
             w == newest(m.remoteKey, n, 0, ZeroKey, 0)
             m1 == IF w.na # 0
                   THEN \* someone had the file
                        [m EXCEPT
                           !.files = Store(m.files, w.nk,
                                       [Lookup(m.files, w.nk, ZeroRecord)
                                           EXCEPT !.Global = TRUE]),
                           !.globalKey = Store(m.globalKey, n, w.nk),
                           !.globalAvailability =
                               Store(m.globalAvailability, n, w.na)]
                   ELSE \* noone had the file
                        [m EXCEPT
                           !.globalKey = Delete(m.globalKey, n),
                           !.globalAvailability =
                               Delete(m.globalAvailability, n)]
         IN  recalculate(m1, todo \ {n})

\* Set.replace clearing the index of every peer instead of that of cid.
replaceClearsEveryPeer(m, cid, fs) ==
    LET m1 == [m EXCEPT
                 !.files = releaseUsage(m.files, m.remoteKey[cid].keys),
                 !.remoteKey = [i \in DOMAIN m.remoteKey |-> MakeMap]]
        m2 == recalculate(m1, DOMAIN m1.globalKey)
    IN  update(m2, cid, fs)

\* Set.replace.
replace(m, cid, fs) ==
    LET m1 == [m EXCEPT
                 !.files = releaseUsage(m.files, m.remoteKey[cid].keys),
                 !.remoteKey = [m.remoteKey EXCEPT ![cid] = MakeMap]]
        m2 == recalculate(m1, DOMAIN m1.globalKey)
    IN  update(m2, cid, fs)

\* Set.equals with the length of fs held against the number of records in
\* files instead of the peer's own live entries.
equalsCountsAllRecords(m, id, fs) ==
    LET rem == m.remoteKey[id].keys
    IN  /\ Cardinality(DOMAIN m.files) = Len(fs)
        /\ \A i \in 1 .. Len(fs) :
              Lookup(rem, fs[i].Name, ZeroKey) = keyFor(fs[i])

\* Set.equals.
equals(m, id, fs) ==
    LET rem == m.remoteKey[id].keys
        live == { n \in DOMAIN rem :
                    ~IsDeleted(Lookup(m.files, rem[n], ZeroRecord).File) }
        \* curWithoutDeleted is keyed by the name stored in the record
        cur == { <<Lookup(m.files, rem[n], ZeroRecord).File.Name, rem[n]>> :
                    n \in live }
        curNames == { p[1] : p \in cur }
        curKey(n) == IF n \in curNames
                     THEN (CHOOSE p \in cur : p[1] = n)[2]
                     ELSE ZeroKey
    IN  /\ Cardinality(curNames) = Len(fs)
        /\ \A i \in 1 .. Len(fs) : curKey(fs[i].Name) = keyFor(fs[i])

\* ------------------------------------------------------------------- store
\* boltUpdateBucket: Put every file of fs under its name, in order.
RECURSIVE boltUpdateBucket(_, _)
boltUpdateBucket(bkt, fs) ==
    IF fs = <<>> THEN bkt
    ELSE boltUpdateBucket(Store(bkt, Head(fs).Name, MarshalXDR(Head(fs))),
                          Tail(fs))

\* boltReplace without the DeleteBucket: what the peer had stored stays.
boltReplaceKeepsBucket(d, id, r, fs) ==
    LET peerBkt == Lookup(d, id, EmptyMap)
        repoBkt == Lookup(peerBkt, r, EmptyMap)
    IN  Store(d, id, Store(peerBkt, r, boltUpdateBucket(repoBkt, fs)))

\* boltReplace: the bucket of peer id is deleted and created anew, the bucket
\* of repository r is created in it and filled.
boltReplace(d, id, r, fs) ==
    Store(d, id, Store(EmptyMap, r, boltUpdateBucket(EmptyMap, fs)))

\* boltUpdate: both buckets are created if missing, then filled.
boltUpdate(d, id, r, fs) ==
    LET peerBkt == Lookup(d, id, EmptyMap)
        repoBkt == Lookup(peerBkt, r, EmptyMap)
    IN  Store(d, id, Store(peerBkt, r, boltUpdateBucket(repoBkt, fs)))

\* The transaction of ReplaceWithDelete: boltUpdate, then every stored file
\* that is not named in fs and not deleted gets the Deleted flag and loses
\* its blocks.
boltReplaceWithDelete(d, id, r, fs) ==
    LET d1 == boltUpdate(d, id, r, fs)
        nm == { fs[i].Name : i \in 1 .. Len(fs) }
        bkt == d1[id][r]
        marked == [k \in DOMAIN bkt |->
                     LET f == UnmarshalXDR(bkt[k])
                     IN  IF f.Name \notin nm /\ ~IsDeleted(f)
                         THEN MarshalXDR([f EXCEPT !.Deleted = TRUE,
                                                   !.Blocks = 0])
                         ELSE bkt[k]]
    IN  Store(d1, id, Store(d1[id], r, marked))

\* --------------------------------------------------------------- accessors
\* The view of Set.Have on store d: the decoded bucket of the peer, as a set
\* of files.
HaveIn(d, id) ==
    IF id \in DOMAIN d /\ repo \in DOMAIN d[id]
    THEN { UnmarshalXDR(d[id][repo][k]) : k \in DOMAIN d[id][repo] }
    ELSE {}

\* Set.Have.
Have(id) == HaveIn(db, id)

\* The loop of Set.Need without its test of Suppressed.
NeedKeysWithSuppressed(id) ==
    LET rkID == remoteKey[id].keys
    IN  { gk \in DOMAIN files :
            /\ files[gk].Global
            /\ newerThan(gk, Lookup(rkID, gk.Name, ZeroKey))
            /\ ~( /\ IsDeleted(files[gk].File)
                  /\ \/ gk.Name \notin DOMAIN rkID
                     \/ IsDeleted(Lookup(files, Lookup(rkID, gk.Name, ZeroKey),
                                         ZeroRecord).File) ) }

\* The loop of Set.Need: the keys of the global, unsuppressed records newer
\* than what the peer has, deletions of files the peer does not have or has
\* deleted left out.
NeedKeys(id) ==
    LET rkID == remoteKey[id].keys
    IN  { gk \in DOMAIN files :
            /\ files[gk].Global
            /\ ~files[gk].File.Suppressed
            /\ newerThan(gk, Lookup(rkID, gk.Name, ZeroKey))
            /\ ~( /\ IsDeleted(files[gk].File)
                  /\ \/ gk.Name \notin DOMAIN rkID
                     \/ IsDeleted(Lookup(files, Lookup(rkID, gk.Name, ZeroKey),
                                         ZeroRecord).File) ) }

\* Set.Need: the files of those records, in no particular order.
Need(id) == { files[gk].File : gk \in NeedKeys(id) }

\* Set.Global: the files of the records flagged global.
Global == { files[k].File : k \in { x \in DOMAIN files : files[x].Global } }

\* Set.Get, Set.GetGlobal, Set.Availability, Set.Changes.
Get(id, name) ==
    Lookup(files, Lookup(remoteKey[id].keys, name, ZeroKey), ZeroRecord).File
GetGlobal(name) ==
    Lookup(files, Lookup(globalKey, name, ZeroKey), ZeroRecord).File
Availability(name) == Lookup(globalAvailability, name, 0)
Changes(id) == changes[id]

\* ----------------------------------------------------------------- actions
\* The goroutines that call into the set, none of them inside a call.
Threads == 1 .. MaxThreads
Idle == [op |-> "idle"]
NoCalls == [t \in Threads |-> Idle]
\* No walk is under way.
NoWalk == [pc |-> "none"]

Init ==
    /\ files = EmptyMap
    /\ remoteKey = [i \in Peers |-> NilMap]
    /\ changes = [i \in Peers |-> 0]
    /\ globalAvailability = EmptyMap
    /\ globalKey = EmptyMap
    /\ globalVersion = EmptyMap
    /\ db = EmptyMap
    /\ clock = 0
    /\ fatal = FALSE
    /\ inflight = NoCalls
    /\ walker = NoWalk

\* The calls that change the in-memory tables, counted over all peers.
RECURSIVE SumTo(_, _)
SumTo(c, i) == IF i < 0 THEN 0 ELSE c[i] + SumTo(c, i - 1)
TotalChanges == SumTo(changes, MaxPeer)

\* The in-memory tables take the values of m.
SetMem(m) ==
    /\ files' = m.files
    /\ remoteKey' = m.remoteKey
    /\ globalAvailability' = m.globalAvailability
    /\ globalKey' = m.globalKey

\* A call of goroutine t is two steps: its store transaction, outside the
\* mutex, and then its locked part, from m.Lock() to m.Unlock(). bolt runs
\* one write transaction at a time and the mutex one locked part at a time;
\* between the two steps of a call the other goroutines may take theirs.
\* err is what m.db.Update returned; the caller drops it.
Call(op, id, fs, err) == [op |-> op, id |-> id, fs |-> fs, err |-> err]
InFlight == { t \in Threads : inflight[t] # Idle }
\* Calls are started only while the counters leave room to finish them.
Room == TotalChanges + Cardinality(InFlight) < MaxChanges
\* A single goroutine that makes its calls one after another.
OneCaller == { t \in Threads : \A u \in Threads : t <= u }

\* Set.Replace(id, fs) up to m.Lock().
ReplaceStore(t, id, fs) ==
    /\ ~fatal /\ inflight[t] = Idle /\ Room
    /\ id <= MaxConnID
    /\ db' = boltReplace(db, id, repo, fs)
    /\ inflight' = [inflight EXCEPT ![t] = Call("Replace", id, fs, FALSE)]
    /\ UNCHANGED <<files, remoteKey, changes, globalAvailability, globalKey,
                   globalVersion, clock, fatal, walker>>

\* Set.Replace from m.Lock() to m.Unlock().
ReplaceLocked(t) ==
    /\ ~fatal /\ inflight[t].op = "Replace"
    /\ LET id == inflight[t].id
           fs == inflight[t].fs
       IN  IF Len(fs) = 0 \/ ~equals(Mem, id, fs)
           THEN /\ changes' = [changes EXCEPT ![id] = @ + 1]
                /\ SetMem(replace(Mem, id, fs))
           ELSE UNCHANGED <<files, remoteKey, changes, globalAvailability,
                            globalKey>>
    /\ inflight' = [inflight EXCEPT ![t] = Idle]
    /\ UNCHANGED <<globalVersion, db, clock, fatal, walker>>

\* The orders in which a range over a map with the names of S may visit them.
Orders(S) ==
    { o \in [1 .. Cardinality(S) -> S] : { o[i] : i \in DOMAIN o } = S }

\* The loop of ReplaceWithDelete over remoteKey[LocalID], visiting the names
\* of order from position i on: a file that is not named in nf is appended
\* to fs, given the Deleted flag, no blocks, size 0 and a ticked version if
\* it is not deleted yet. The result is the list and the clock.
RECURSIVE appendDeleted(_, _, _, _, _, _)
appendDeleted(m, order, i, nf, fs, c) ==
    IF i > Len(order) THEN [fs |-> fs, clock |-> c]
    ELSE LET ck == m.remoteKey[LocalID].keys[order[i]]
             cf == Lookup(m.files, ck, ZeroRecord).File
         IN  IF ck.Name \in nf
             THEN appendDeleted(m, order, i + 1, nf, fs, c)
             ELSE IF ~IsDeleted(cf)
                  THEN appendDeleted(m, order, i + 1, nf,
                         Append(fs, [cf EXCEPT !.Deleted = TRUE, !.Blocks = 0,
                                               !.Size = 0,
                                               !.Version = TickValue(c, cf.Version)]),
                         TickValue(c, cf.Version))
                  ELSE appendDeleted(m, order, i + 1, nf, Append(fs, cf), c)

\* Set.ReplaceWithDelete(id, fs) up to m.Lock().
ReplaceWithDeleteStore(t, id, fs) ==
    /\ ~fatal /\ inflight[t] = Idle /\ Room
    /\ id <= MaxConnID
    /\ db' = boltReplaceWithDelete(db, id, repo, fs)
    /\ inflight' = [inflight EXCEPT
                      ![t] = Call("ReplaceWithDelete", id, fs, FALSE)]
    /\ UNCHANGED <<files, remoteKey, changes, globalAvailability, globalKey,
                   globalVersion, clock, fatal, walker>>

\* Set.ReplaceWithDelete from m.Lock() to m.Unlock().
ReplaceWithDeleteLocked(t) ==
    /\ ~fatal /\ inflight[t].op = "ReplaceWithDelete"
    /\ LET id == inflight[t].id
           fs == inflight[t].fs
       IN  IF Len(fs) = 0 \/ ~equals(Mem, id, fs)
           THEN /\ changes' = [changes EXCEPT ![id] = @ + 1]
                /\ \E order \in Orders(DOMAIN remoteKey[LocalID].keys) :
                     LET nf == { fs[i].Name : i \in 1 .. Len(fs) }
                         r == appendDeleted(Mem, order, 1, nf, fs, clock)
                     IN  /\ r.clock <= MaxClock
                         /\ clock' = r.clock
                         /\ SetMem(replace(Mem, id, r.fs))
           ELSE UNCHANGED <<files, remoteKey, changes, globalAvailability,
                            globalKey, clock>>
    /\ inflight' = [inflight EXCEPT ![t] = Idle]
    /\ UNCHANGED <<globalVersion, db, fatal, walker>>

\* Set.Update(id, fs) up to m.Lock(): there is no test of id, the store is
\* written under the bucket of id whatever it is.
UpdateStore(t, id, fs) ==
    /\ ~fatal /\ inflight[t] = Idle /\ Room
    /\ db' = boltUpdate(db, id, repo, fs)
    /\ inflight' = [inflight EXCEPT ![t] = Call("Update", id, fs, FALSE)]
    /\ UNCHANGED <<files, remoteKey, changes, globalAvailability, globalKey,
                   globalVersion, clock, fatal, walker>>

\* The locked part of Set.Update without the increment of changes[id].
UpdateLockedNoCount(t) ==
    /\ ~fatal /\ inflight[t].op = "Update"
    /\ LET id == inflight[t].id
           fs == inflight[t].fs
       IN  IF id > MaxConnID \/ remoteKey[id].nil
           THEN /\ fatal' = TRUE
                /\ UNCHANGED <<files, remoteKey, changes, globalAvailability,
                               globalKey, inflight>>
           ELSE /\ SetMem(update(Mem, id, fs))
                /\ changes' = changes
                /\ inflight' = [inflight EXCEPT ![t] = Idle]
                /\ fatal' = fatal
    /\ UNCHANGED <<globalVersion, db, clock, walker>>

\* The locked part of Set.Update returning at once for an id past the slots
\* of remoteKey.
UpdateLockedSkipsOutOfRange(t) ==
    /\ ~fatal /\ inflight[t].op = "Update"
    /\ LET id == inflight[t].id
           fs == inflight[t].fs
       IN  IF id > MaxConnID
           THEN /\ inflight' = [inflight EXCEPT ![t] = Idle]
                /\ UNCHANGED <<files, remoteKey, changes, globalAvailability,
                               globalKey, fatal>>
           ELSE IF remoteKey[id].nil
           THEN /\ fatal' = TRUE
                /\ UNCHANGED <<files, remoteKey, changes, globalAvailability,
                               globalKey, inflight>>
           ELSE /\ SetMem(update(Mem, id, fs))
                /\ changes' = [changes EXCEPT ![id] = @ + 1]
                /\ inflight' = [inflight EXCEPT ![t] = Idle]
                /\ fatal' = fatal
    /\ UNCHANGED <<globalVersion, db, clock, walker>>

\* Set.Update from m.Lock() on: update indexes the slots of remoteKey with
\* id, where the runtime panics for an id past them, and ends the process in
\* l.Fatalln when the peer has had no replace; otherwise it folds fs in, the
\* counter goes up and the call returns.
UpdateLocked(t) ==
    /\ ~fatal /\ inflight[t].op = "Update"
    /\ LET id == inflight[t].id
           fs == inflight[t].fs
       IN  IF id > MaxConnID \/ remoteKey[id].nil
           THEN /\ fatal' = TRUE
                /\ UNCHANGED <<files, remoteKey, changes, globalAvailability,
                               globalKey, inflight>>
           ELSE /\ SetMem(update(Mem, id, fs))
                /\ changes' = [changes EXCEPT ![id] = @ + 1]
                /\ inflight' = [inflight EXCEPT ![t] = Idle]
                /\ fatal' = fatal
    /\ UNCHANGED <<globalVersion, db, clock, walker>>

\* One goroutine calling with lists of up to MaxLen regular files.
Next ==
    \E t \in OneCaller :
        \/ \E id \in Peers, fs \in InputLists :
              \/ ReplaceStore(t, id, fs)
              \/ ReplaceWithDeleteStore(t, id, fs)
              \/ UpdateStore(t, id, fs)
        \/ ReplaceLocked(t)
        \/ ReplaceWithDeleteLocked(t)
        \/ UpdateLocked(t)

Spec == Init /\ [][Next]_vars

\* One goroutine calling with lists of at most one file of any kind.
NextFlags ==
    \E t \in OneCaller :
        \/ \E id \in Peers, fs \in FlaggedLists :
              \/ ReplaceStore(t, id, fs)
              \/ ReplaceWithDeleteStore(t, id, fs)
              \/ UpdateStore(t, id, fs)
        \/ ReplaceLocked(t)
        \/ ReplaceWithDeleteLocked(t)
        \/ UpdateLocked(t)

SpecFlags == Init /\ [][NextFlags]_vars

\* ------------------------------------------------------------------ faults
\* Lists of at most one regular file.
SmallLists == ListsUpTo(PlainFiles, 1)
\* A connection id past the 64 slots of remoteKey and changes.
OutOfRangeIDs == { MaxConnID + 1 }
\* A second repository whose set shares the store.
otherRepo == "other"

\* Set.Replace(id, fs) up to m.Lock() when the store transaction fails: bolt
\* rolls the transaction back and the error db.Update returns is dropped.
ReplaceStoreError(t, id, fs) ==
    /\ ~fatal /\ inflight[t] = Idle /\ Room
    /\ id <= MaxConnID
    /\ db' = db
    /\ inflight' = [inflight EXCEPT ![t] = Call("Replace", id, fs, TRUE)]
    /\ UNCHANGED <<files, remoteKey, changes, globalAvailability, globalKey,
                   globalVersion, clock, fatal, walker>>

\* Set.ReplaceWithDelete(id, fs) up to m.Lock() when the store transaction
\* fails.
ReplaceWithDeleteStoreError(t, id, fs) ==
    /\ ~fatal /\ inflight[t] = Idle /\ Room
    /\ id <= MaxConnID
    /\ db' = db
    /\ inflight' = [inflight EXCEPT
                      ![t] = Call("ReplaceWithDelete", id, fs, TRUE)]
    /\ UNCHANGED <<files, remoteKey, changes, globalAvailability, globalKey,
                   globalVersion, clock, fatal, walker>>

\* Set.Update(id, fs) up to m.Lock() when the store transaction fails.
UpdateStoreError(t, id, fs) ==
    /\ ~fatal /\ inflight[t] = Idle /\ Room
    /\ db' = db
    /\ inflight' = [inflight EXCEPT ![t] = Call("Update", id, fs, TRUE)]
    /\ UNCHANGED <<files, remoteKey, changes, globalAvailability, globalKey,
                   globalVersion, clock, fatal, walker>>

\* Set.Replace(id, fs) and Set.ReplaceWithDelete(id, fs) with id > 63: the
\* panic comes before the store is touched.
ReplaceOutOfRange(t, id, fs) ==
    /\ ~fatal /\ inflight[t] = Idle
    /\ id > MaxConnID
    /\ fatal' = TRUE
    /\ UNCHANGED <<files, remoteKey, changes, globalAvailability, globalKey,
                   globalVersion, db, clock, inflight, walker>>
ReplaceWithDeleteOutOfRange(t, id, fs) ==
    /\ ~fatal /\ inflight[t] = Idle
    /\ id > MaxConnID
    /\ fatal' = TRUE
    /\ UNCHANGED <<files, remoteKey, changes, globalAvailability, globalKey,
                   globalVersion, db, clock, inflight, walker>>

\* One goroutine whose calls may name an id past the slots and whose store
\* transactions may fail.
NextFaults ==
    \E t \in OneCaller :
        \/ \E fs \in SmallLists :
              \/ \E id \in Peers :
                    \/ ReplaceStore(t, id, fs)
                    \/ ReplaceWithDeleteStore(t, id, fs)
                    \/ UpdateStore(t, id, fs)
                    \/ ReplaceStoreError(t, id, fs)
                    \/ ReplaceWithDeleteStoreError(t, id, fs)
                    \/ UpdateStoreError(t, id, fs)
              \/ \E id \in OutOfRangeIDs :
                    \/ ReplaceOutOfRange(t, id, fs)
                    \/ ReplaceWithDeleteOutOfRange(t, id, fs)
                    \/ UpdateStore(t, id, fs)
        \/ ReplaceLocked(t)
        \/ ReplaceWithDeleteLocked(t)
        \/ UpdateLocked(t)

SpecFaults == Init /\ [][NextFaults]_vars

\* ------------------------------------------------------------- concurrency
\* MaxThreads goroutines calling at the same time.
NextConc ==
    \E t \in Threads :
        \/ \E id \in Peers, fs \in SmallLists :
              \/ ReplaceStore(t, id, fs)
              \/ ReplaceWithDeleteStore(t, id, fs)
              \/ UpdateStore(t, id, fs)
        \/ ReplaceLocked(t)
        \/ ReplaceWithDeleteLocked(t)
        \/ UpdateLocked(t)

SpecConc == Init /\ [][NextConc]_vars

\* The same goroutines calling Replace and Update only.
NextRace ==
    \E t \in Threads :
        \/ \E id \in Peers, fs \in SmallLists :
              \/ ReplaceStore(t, id, fs)
              \/ UpdateStore(t, id, fs)
        \/ ReplaceLocked(t)
        \/ UpdateLocked(t)

SpecRace == Init /\ [][NextRace]_vars

\* ----------------------------------------------------------------- restart
\* The stores a set can be created over: an empty one, and those in which
\* an earlier run of this set and the set of the other repository have each
\* written the view of a peer.
PriorLists == { fs \in SmallLists : Len(fs) = 1 /\ fs[1].Version = 1 }
PriorStores ==
    { EmptyMap } \cup
    { boltUpdate(boltReplace(EmptyMap, p, repo, f), q, otherRepo, g) :
        p \in Peers, q \in Peers, f \in PriorLists, g \in PriorLists }

\* NewSet(repo, db) over a store of PriorStores: the tables are made empty,
\* the store is not read.
InitOverStore ==
    /\ files = EmptyMap
    /\ remoteKey = [i \in Peers |-> NilMap]
    /\ changes = [i \in Peers |-> 0]
    /\ globalAvailability = EmptyMap
    /\ globalKey = EmptyMap
    /\ globalVersion = EmptyMap
    /\ db \in PriorStores
    /\ clock = 0
    /\ fatal = FALSE
    /\ inflight = NoCalls
    /\ walker = NoWalk

\* One goroutine calling on the set created over such a store.
NextOverStore ==
    \E t \in OneCaller :
        \/ \E id \in Peers, fs \in SmallLists :
              \/ ReplaceStore(t, id, fs)
              \/ ReplaceWithDeleteStore(t, id, fs)
              \/ UpdateStore(t, id, fs)
        \/ ReplaceLocked(t)
        \/ ReplaceWithDeleteLocked(t)
        \/ UpdateLocked(t)

SpecOverStore == InitOverStore /\ [][NextOverStore]_vars

\* ------------------------------------------------------------------ walker
\* The tree under Walker.Dir, in the lexical order filepath.Walk visits it:
\* a directory, a regular file and a directory named .stversions. All names
\* are NFC and none is temporary by the TempNamer.
WalkNames == <<"d", "f", "x">>
IsDir(n) == n \in {"d", "x"}
IsRegular(n) == n = "f"
IsTemporary(n) == FALSE
IsIgnored(n) == n = "x"
\* info.Mode() & os.ModePerm: 0755 for the directories, 0644 for the file.
ModePerm(n) == IF IsDir(n) THEN 493 ELSE 420

\* scanner.File as the walker builds it. Flags is the Directory, Deleted and
\* NoPermBits bits and the nine permission bits.
Flags(dir, del, noperm, perms) ==
    [Dir |-> dir, Deleted |-> del, NoPerm |-> noperm, Perms |-> perms]
WalkFile(n, v, fl, mod, sup, nb, sz) ==
    [Name |-> n, Version |-> v, Flags |-> fl, Modified |-> mod,
     Suppressed |-> sup, Blocks |-> nb, Size |-> sz]
ZeroWalkFile == WalkFile("", 0, Flags(FALSE, FALSE, FALSE, 0), 0, FALSE, 0, 0)

\* PermsEqual off windows: all nine bits count.
PermsEqual(a, b) == (a % 512) = (b % 512)

\* CurrentFiler.CurrentFile(rn): the file as seen at the last scan, the zero
\* File for a name it has not seen.
CurrentFile(w, n) == Lookup(w.cache, n, ZeroWalkFile)

\* The callback of walkAndHashFiles for entry n, with clock c: the records it
\* appends (none or one), the clock it leaves, and whether the record was
\* built anew. sup is the Suppressor saying cur && !prev, openOK the file
\* opening and hashing without error.
walkAndHashFiles(w, c, n, sup, openOK) ==
    LET cf == CurrentFile(w, n)
        permUnchanged == \/ w.ignorePerms
                         \/ cf.Flags.NoPerm
                         \/ PermsEqual(cf.Flags.Perms, ModePerm(n))
        nothing == [emit |-> <<>>, clock |-> c, built |-> FALSE]
        cached == [emit |-> <<cf>>, clock |-> c, built |-> FALSE]
        v == TickValue(c, 0)
        newDir == WalkFile(n, v,
                    IF w.ignorePerms
                    THEN Flags(TRUE, FALSE, TRUE, 511)
                    ELSE Flags(TRUE, FALSE, FALSE, ModePerm(n)),
                    w.mtime[n], FALSE, 0, 0)
        newFile == WalkFile(n, v,
                    IF w.ignorePerms
                    THEN Flags(FALSE, FALSE, TRUE, 438)
                    ELSE Flags(FALSE, FALSE, FALSE, ModePerm(n)),
                    w.mtime[n], FALSE, 1, 1)
    IN  IF ~w.baseOK THEN nothing          \* the walk hands in an error
        ELSE IF IsTemporary(n) THEN nothing
        ELSE IF IsIgnored(n) THEN nothing
        ELSE IF IsDir(n) /\ w.filer
        THEN IF cf.Modified = w.mtime[n] /\ cf.Flags.Dir /\ permUnchanged
             THEN cached
             ELSE [emit |-> <<newDir>>, clock |-> v, built |-> TRUE]
        ELSE IF IsRegular(n)
        THEN IF w.filer /\ ~cf.Flags.Deleted /\ cf.Modified = w.mtime[n]
                /\ permUnchanged
             THEN cached
             ELSE IF w.filer /\ sup
             THEN [emit |-> <<[cf EXCEPT !.Suppressed = TRUE,
                                         !.Version = @ + 1]>>,
                   clock |-> c, built |-> FALSE]
             ELSE IF ~openOK THEN nothing
             ELSE [emit |-> <<newFile>>, clock |-> v, built |-> TRUE]
        ELSE nothing

\* A Walker over an existing directory that nothing has scanned yet.
NewWalker ==
    [pc |-> "none", baseOK |-> TRUE,
     mtime |-> [n \in {"d", "f", "x"} |-> 1],
     cache |-> EmptyMap, filer |-> FALSE, ignorePerms |-> FALSE,
     todo |-> <<>>, res |-> <<>>, files |-> <<>>, err |-> FALSE]

InitWalk ==
    /\ files = EmptyMap
    /\ remoteKey = [i \in Peers |-> NilMap]
    /\ changes = [i \in Peers |-> 0]
    /\ globalAvailability = EmptyMap
    /\ globalKey = EmptyMap
    /\ globalVersion = EmptyMap
    /\ db = EmptyMap
    /\ clock = 0
    /\ fatal = FALSE
    /\ inflight = NoCalls
    /\ walker = NewWalker

SetUnchanged ==
    UNCHANGED <<files, remoteKey, changes, globalAvailability, globalKey,
                globalVersion, db, fatal, inflight>>

\* Walker.Walk up to the passes: the first checkDir, which returns the error
\* with no files, or the start of the hash pass.
WalkStart(filer, ignorePerms) ==
    /\ walker.pc \in {"none", "done"}
    /\ walker' = IF ~walker.baseOK
                 THEN [walker EXCEPT !.pc = "done", !.err = TRUE,
                                     !.files = <<>>, !.res = <<>>,
                                     !.filer = filer,
                                     !.ignorePerms = ignorePerms]
                 ELSE [walker EXCEPT !.pc = "walking", !.err = FALSE,
                                     !.files = <<>>, !.res = <<>>,
                                     !.todo = WalkNames,
                                     !.filer = filer,
                                     !.ignorePerms = ignorePerms]
    /\ clock' = clock
    /\ SetUnchanged

\* One call of the callback by filepath.Walk.
WalkVisit ==
    /\ walker.pc = "walking"
    /\ walker.todo # <<>>
    /\ \E sup \in BOOLEAN, openOK \in BOOLEAN :
          LET r == walkAndHashFiles(walker, clock, Head(walker.todo), sup, openOK)
          IN  /\ r.clock <= MaxClock
              /\ \A i \in 1 .. Len(r.emit) : r.emit[i].Version <= MaxClock
              /\ walker' = [walker EXCEPT !.todo = Tail(@),
                                          !.res = @ \o r.emit]
              /\ clock' = r.clock
    /\ SetUnchanged

\* Walker.Walk after the passes: the second checkDir sets err, and the
\* named results files and err are returned as they stand.
WalkReturn ==
    /\ walker.pc = "walking"
    /\ walker.todo = <<>>
    /\ walker' = [walker EXCEPT !.pc = "done", !.err = ~walker.baseOK,
                                !.files = walker.res]
    /\ clock' = clock
    /\ SetUnchanged

\* The caller takes the files of a walk that returned no error: they are
\* what the CurrentFiler answers with from now on.
Adopt ==
    /\ walker.pc = "done"
    /\ ~walker.err
    /\ walker' = [walker EXCEPT
                    !.pc = "none",
                    !.cache = [n \in { walker.files[i].Name :
                                         i \in 1 .. Len(walker.files) } |->
                                 LET i == CHOOSE j \in 1 .. Len(walker.files) :
                                              walker.files[j].Name = n
                                 IN  walker.files[i]]]
    /\ clock' = clock
    /\ SetUnchanged

\* The file system moves under the walker: an entry is modified, or the base
\* directory goes away.
Touch(n) ==
    /\ walker.mtime[n] < MaxMtime
    /\ walker' = [walker EXCEPT !.mtime[n] = @ + 1]
    /\ clock' = clock
    /\ SetUnchanged
RemoveBase ==
    /\ walker.baseOK
    /\ walker' = [walker EXCEPT !.baseOK = FALSE]
    /\ clock' = clock
    /\ SetUnchanged

NextWalk ==
    \/ \E filer \in BOOLEAN, ignorePerms \in BOOLEAN :
          WalkStart(filer, ignorePerms)
    \/ WalkVisit
    \/ WalkReturn
    \/ Adopt
    \/ \E n \in {"d", "f"} : Touch(n)
    \/ RemoveBase

SpecWalk == InitWalk /\ [][NextWalk]_vars


\* -------------------------------------------------------------- properties
\* The peers that currently report name n, and what peer i reports for it.
Reporting(n) == { i \in Peers : n \in DOMAIN remoteKey[i].keys }
Reported(i, n) == remoteKey[i].keys[n]
AllNames == Names \cup DOMAIN globalKey \cup { k.Name : k \in DOMAIN files }
Range(fs) == { fs[i] : i \in 1 .. Len(fs) }

\* C1: for every name in globalKey, the version of globalKey[name] is the
\* maximum of the versions the peers currently report for that name.
GlobalKeyIsNewest ==
    \A n \in DOMAIN globalKey :
        /\ \E i \in Reporting(n) : Reported(i, n).Version = globalKey[n].Version
        /\ \A i \in Reporting(n) : Reported(i, n).Version <= globalKey[n].Version

\* C2: for every name in globalAvailability, bit i is set exactly when peer
\* i's current entry for the name equals globalKey[name].
AvailabilityIsExact ==
    \A n \in DOMAIN globalAvailability :
        \A i \in Peers :
            HasBit(globalAvailability[n], i)
                <=> /\ i \in Reporting(n)
                    /\ n \in DOMAIN globalKey
                    /\ Reported(i, n) = globalKey[n]

\* C3: Global() holds exactly one record for every name some peer reports and
\* none for any other name: the record flagged global for a name is
\* files[globalKey[name]] and no other record carries the flag.
GlobalFlagIsExact ==
    /\ \A n \in AllNames :
          Reporting(n) # {} =>
              /\ n \in DOMAIN globalKey
              /\ globalKey[n] \in DOMAIN files
              /\ files[globalKey[n]].Global
    /\ \A k \in DOMAIN files :
          files[k].Global =>
              /\ Reporting(k.Name) # {}
              /\ k.Name \in DOMAIN globalKey
              /\ globalKey[k.Name] = k

\* C4: the usage of every record in files is the number of peers whose index
\* maps some name to it, and no record stays once no peer refers to it.
Referrers(k) ==
    { i \in Peers : \E n \in DOMAIN remoteKey[i].keys : Reported(i, n) = k }
UsageIsReferenceCount ==
    \A k \in DOMAIN files :
        /\ files[k].Usage = Cardinality(Referrers(k))
        /\ Referrers(k) # {}

\* C5: if peer P has no entry for a name, or an older one, and the newest
\* version of the name held by any peer is not deleted, Need(P) contains that
\* newest record.
NewestKey(n) ==
    CHOOSE k \in { Reported(i, n) : i \in Reporting(n) } :
        \A i \in Reporting(n) : Reported(i, n).Version <= k.Version
NeedHasNewest ==
    \A P \in Peers, n \in Names :
        ( /\ Reporting(n) # {}
          /\ \/ P \notin Reporting(n)
             \/ Reported(P, n).Version < NewestKey(n).Version
          /\ ~IsDeleted(Lookup(files, NewestKey(n), ZeroRecord).File) )
        => \E f \in Need(P) : keyFor(f) = NewestKey(n)

\* C6: if peer P's current entry for a name equals globalKey[name], Need(P)
\* holds no record of that name.
NeedSkipsWhatPeerHas ==
    \A P \in Peers, n \in Names :
        ( /\ P \in Reporting(n)
          /\ n \in DOMAIN globalKey
          /\ Reported(P, n) = globalKey[n] )
        => ~ \E f \in Need(P) : f.Name = n

\* C7: every file Need(peer) returns is a record flagged global, not
\* suppressed and of a version strictly greater than the one the peer reports
\* for the name, if any; a deleted record is returned only when the peer has
\* an entry for the name that is not itself deleted.
NeedReturnsOnlyNewerGlobals ==
    \A P \in Peers :
        \A f \in Need(P) :
            /\ keyFor(f) \in DOMAIN files
            /\ files[keyFor(f)].File = f
            /\ files[keyFor(f)].Global
            /\ ~f.Suppressed
            /\ P \in Reporting(f.Name) => f.Version > Reported(P, f.Name).Version
            /\ IsDeleted(f) =>
                  /\ P \in Reporting(f.Name)
                  /\ ~IsDeleted(Get(P, f.Name))

\* Some peer needs a deletion of a file it still has, and some peer is not
\* handed a newer global record because that record is suppressed.
NeedReturnsDeletionWitness ==
    /\ \E P \in Peers : \E f \in Need(P) :
          IsDeleted(f) /\ P \in Reporting(f.Name) /\ ~IsDeleted(Get(P, f.Name))
    /\ \E P \in Peers : \E k \in DOMAIN files :
          /\ files[k].Global /\ files[k].File.Suppressed
          /\ P \in Reporting(k.Name)
          /\ newerThan(k, Reported(P, k.Name))
          /\ files[k].File \notin Need(P)

\* The files of fs as they come back from the store.
Decoded(fs) == { UnmarshalXDR(MarshalXDR(f)) : f \in Range(fs) }
DistinctNames(fs) ==
    \A i, j \in 1 .. Len(fs) : fs[i].Name = fs[j].Name => i = j

\* C8 as stated: after Replace(peer, fs) returns, Have(peer) is exactly the
\* files of fs, for every list fs.
ReplaceThenHaveIsList ==
    [][\A t \in Threads, id \in Peers, fs \in InputLists :
          (ReplaceLocked(t) /\ inflight[t].id = id /\ inflight[t].fs = fs) =>
              Have(id)' = Range(fs)]_vars

\* C8 as amended: from every reachable state, for every peer and every list
\* fs in which no two files share a name, the store Replace(peer, fs) leaves
\* behind is read by Have(peer) as exactly the files of fs, equal in every
\* field the store encodes.
ReplaceThenHaveIsDistinctList ==
    ~fatal =>
        \A id \in Peers, fs \in InputLists :
            DistinctNames(fs) =>
                HaveIn(boltReplace(db, id, repo, fs), id) = Decoded(fs)

\* Peer 0 has had one replace with two files of different names, and Have(0)
\* holds both.
ReplaceThenHaveWitness ==
    /\ ~fatal
    /\ changes[0] = 1 /\ TotalChanges = 1
    /\ Cardinality(Have(0)) = 2
    /\ { f.Name : f \in Have(0) } = DOMAIN remoteKey[0].keys

\* C9: after every call that has returned, for every peer and name either the
\* stored entry decodes to a file whose key is the peer's entry in memory, or
\* the name is absent from both.
InStore(i, n) ==
    i \in DOMAIN db /\ repo \in DOMAIN db[i] /\ n \in DOMAIN db[i][repo]
StoreMirrorsMemory ==
    (~fatal /\ InFlight = {}) =>
        \A i \in Peers, n \in Names :
            \/ /\ InStore(i, n)
               /\ i \in Reporting(n)
               /\ keyFor(UnmarshalXDR(db[i][repo][n])) = Reported(i, n)
            \/ /\ ~InStore(i, n)
               /\ i \notin Reporting(n)

\* C10: a second Update(peer, fs) right after the first leaves the in-memory
\* tables and the store as the first left them; only changes[peer] goes up
\* by one more.
UpdateIsIdempotent ==
    [][\A t \in Threads :
          (UpdateLocked(t) /\ ~fatal') =>
              LET id == inflight[t].id
                  fs == inflight[t].fs
              IN  /\ update(Mem', id, fs) = Mem'
                  /\ boltUpdate(db', id, repo, fs) = db'
                  /\ changes'[id] = changes[id] + 1]_vars

\* The locked part of Set.Replace(id, fs) on tables m and counters c: the
\* tables and counters it leaves.
ReplaceIn(s, id, fs) ==
    IF Len(fs) = 0 \/ ~equals(s.m, id, fs)
    THEN [m |-> replace(s.m, id, fs),
          changes |-> [s.changes EXCEPT ![id] = @ + 1]]
    ELSE s
Now == [m |-> Mem, changes |-> changes]
KeysOf(fs) == { keyFor(f) : f \in Range(fs) }
SameKeyPairs ==
    { p \in InputLists \X InputLists : KeysOf(p[1]) = KeysOf(p[2]) }
\* The records peer id reports in tables m, none of them deleted.
ViewIsLive(m, id) ==
    \A n \in DOMAIN m.remoteKey[id].keys :
        ~IsDeleted(Lookup(m.files, m.remoteKey[id].keys[n], ZeroRecord).File)

\* C11 as stated: from every state no call is under way in, for every peer and every two
\* lists fs and fs' with the same (name, version) keys, Replace(peer, fs')
\* right after Replace(peer, fs) leaves Changes(peer) at the value it had
\* after the first call.
SameKeysKeepChanges ==
    (~fatal /\ InFlight = {}) =>
        \A id \in Peers, p \in SameKeyPairs :
            LET s1 == ReplaceIn(Now, id, p[1])
                s2 == ReplaceIn(s1, id, p[2])
            IN  s2.changes[id] = s1.changes[id]

\* C11 as amended: the same, for lists that are not empty and in which no two
\* files share a name, when no record of the peer's view after the first call
\* is deleted.
DistinctLists == { fs \in InputLists : Len(fs) > 0 /\ DistinctNames(fs) }
SameKeysAs(fs) == { g \in DistinctLists : KeysOf(g) = KeysOf(fs) }
SameLiveKeysKeepChanges ==
    (~fatal /\ InFlight = {}) =>
        \A id \in Peers, fs \in DistinctLists :
            LET s1 == ReplaceIn(Now, id, fs)
            IN  ViewIsLive(s1.m, id) =>
                    \A g \in SameKeysAs(fs) :
                        ReplaceIn(s1, id, g).changes[id] = s1.changes[id]

\* Peer 1 has had its first replace, with two files that the other peer also
\* reports, and a replace with the same two files would be taken as equal.
SameKeysWitness ==
    /\ ~fatal
    /\ changes[1] = 1
    /\ \E fs \in InputLists :
          /\ Len(fs) = 2 /\ DistinctNames(fs)
          /\ equals(Mem, 1, fs)
          /\ ViewIsLive(Mem, 1)
          /\ \A f \in Range(fs) : 0 \in Reporting(f.Name)

\* C12: for every list fs and every name of the local view that is not named
\* in fs, after ReplaceWithDelete(LocalID, fs) the name is still in the local
\* view; a record that was not deleted has become one with the Deleted flag,
\* no blocks, size 0 and a greater version, and a record that was deleted is
\* unchanged.
AbsentNamesAreTombstoned ==
    [][\A t \in Threads :
          (ReplaceWithDeleteLocked(t) /\ inflight[t].id = LocalID) =>
              \A n \in (DOMAIN remoteKey[LocalID].keys)
                          \ { f.Name : f \in Range(inflight[t].fs) } :
                  /\ n \in DOMAIN remoteKey'[LocalID].keys
                  /\ IF IsDeleted(Get(LocalID, n))
                     THEN Get(LocalID, n)' = Get(LocalID, n)
                     ELSE /\ IsDeleted(Get(LocalID, n)')
                          /\ Get(LocalID, n)'.Blocks = 0
                          /\ Get(LocalID, n)'.Size = 0
                          /\ Get(LocalID, n)'.Version > Get(LocalID, n).Version]_vars

\* C13: a call of Replace, ReplaceWithDelete or Update whose store
\* transaction fails leaves files, the peer indices, the global maps and the
\* change counters as they were before the call.
StoreErrorLeavesMemory ==
    [][\A t \in Threads :
          ( /\ inflight[t] # Idle
            /\ inflight[t].err
            /\ \/ ReplaceLocked(t)
               \/ ReplaceWithDeleteLocked(t)
               \/ UpdateLocked(t) )
          => UNCHANGED <<files, remoteKey, changes, globalAvailability,
                         globalKey>>]_vars

\* C14: a call of Replace, ReplaceWithDelete or Update with a peer id greater
\* than 63 ends the process; it does not return: Replace and
\* ReplaceWithDelete end it at once, and an Update that is under way with
\* such an id stays under way until its locked part ends the process.
OutOfRangeIsFatal ==
    [][\A t \in Threads :
          /\ \A id \in OutOfRangeIDs, fs \in SmallLists :
                ( \/ ReplaceOutOfRange(t, id, fs)
                  \/ ReplaceWithDeleteOutOfRange(t, id, fs) )
                => ~fatal /\ fatal'
          /\ (inflight[t] # Idle /\ inflight[t].id > MaxConnID) =>
                /\ inflight'[t] = inflight[t]
                /\ UpdateLocked(t) => ~fatal /\ fatal']_vars

\* Update has been called with id 64 after two changes to the tables: its
\* bucket is in the store and the process has ended.
OutOfRangeWitness ==
    /\ fatal
    /\ TotalChanges = 2
    /\ \E id \in OutOfRangeIDs :
          /\ id \in DOMAIN db
          /\ db[id][repo] # EmptyMap

\* C15: a set that has just been created over a store holding views of its
\* repository has them in memory: Get(peer, name) is the stored file, the
\* global view has the name, and the peer's index is there for Update.
JustCreated == ~fatal /\ InFlight = {} /\ \A i \in Peers : changes[i] = 0
StoredViewsAreReloaded ==
    JustCreated =>
        \A i \in Peers, n \in Names :
            InStore(i, n) =>
                /\ Get(i, n) = UnmarshalXDR(db[i][repo][n])
                /\ n \in DOMAIN globalKey
                /\ GetGlobal(n).Name = n
                /\ ~remoteKey[i].nil

\* Set.Have on store d for repository r.
HaveRepo(d, r, id) ==
    IF id \in DOMAIN d /\ r \in DOMAIN d[id]
    THEN { UnmarshalXDR(d[id][r][k]) : k \in DOMAIN d[id][r] }
    ELSE {}

\* C17: Replace(peer, fs) on this set leaves what Have returns on the set of
\* the other repository as it was, for every peer, and leaves the stored
\* views of the other peers of this repository as they were.
ReplaceKeepsOtherRepos ==
    [][\A t \in Threads, id \in Peers, fs \in SmallLists :
          ReplaceStore(t, id, fs) =>
              \A i \in Peers :
                  /\ HaveRepo(db', otherRepo, i) = HaveRepo(db, otherRepo, i)
                  /\ i # id => HaveRepo(db', repo, i) = HaveRepo(db, repo, i)]_vars

\* What a reader holding the mutex sees of peer id: its index and the file
\* each of its names stands for.
PeerView(id) ==
    [index |-> remoteKey[id],
     files |-> [n \in DOMAIN remoteKey[id].keys |-> Get(id, n)]]

\* C16: under every interleaving of the store transactions and the locked
\* parts of concurrent calls, no step makes changes[peer] smaller, and a locked
\* part that alters what the set holds for a peer raises changes[peer] by one
\* in that same step, so no state between two locked parts has the one
\* without the other.
ChangesMoveWithView ==
    [][\A id \in Peers :
          /\ changes'[id] >= changes[id]
          /\ PeerView(id)' # PeerView(id) => changes'[id] = changes[id] + 1]_vars

\* Peer 0's view has been altered twice while the other goroutine is between
\* its store transaction and its locked part.
ChangesMoveWitness ==
    /\ ~fatal
    /\ changes[0] = 2
    /\ remoteKey[0].keys # EmptyMap
    /\ \E t \in Threads : inflight[t] # Idle /\ inflight[t].id = 0
    /\ Have(0) # { Get(0, n) : n \in DOMAIN remoteKey[0].keys }

\* The walk is about to call the callback for the entry at the head of todo.
AtEntry == walker.pc = "walking" /\ walker.todo # <<>>

\* C18: whenever the walker builds a new record for a name for which the
\* current filer returned a cached record, the version of the new record is
\* greater than the version of the cached one, whatever the clock holds.
WalkerVersionsGrow ==
    AtEntry =>
        \A sup \in BOOLEAN, openOK \in BOOLEAN :
            LET n == Head(walker.todo)
                r == walkAndHashFiles(walker, clock, n, sup, openOK)
            IN  (walker.filer /\ n \in DOMAIN walker.cache /\ r.built)
                => r.emit[1].Version > CurrentFile(walker, n).Version

\* C19: a walk that returns an error, from the check of the base directory
\* before the passes or from the one after them, returns no files.
WalkErrorReturnsNoFiles ==
    (walker.pc = "done" /\ walker.err) => walker.files = <<>>

\* C20: for a directory under the base directory that is neither temporary
\* nor ignored the callback appends exactly one record with the Directory
\* flag: the cached record when a current filer is there and the cached
\* modification time, directory flag and permissions match (a cached record
\* without permission bits matches any), and otherwise, also when there is no
\* current filer, a new record with the flags Directory | permissions and
\* version Tick(0).
DirectoriesAreEmitted ==
    (AtEntry /\ walker.baseOK) =>
        \A sup \in BOOLEAN, openOK \in BOOLEAN :
            LET n == Head(walker.todo)
                cf == CurrentFile(walker, n)
                r == walkAndHashFiles(walker, clock, n, sup, openOK)
                match == /\ walker.filer
                         /\ cf.Modified = walker.mtime[n]
                         /\ cf.Flags.Dir
                         /\ \/ walker.ignorePerms
                            \/ cf.Flags.NoPerm
                            \/ PermsEqual(cf.Flags.Perms, ModePerm(n))
            IN  (IsDir(n) /\ ~IsTemporary(n) /\ ~IsIgnored(n)) =>
                    /\ Len(r.emit) = 1
                    /\ r.emit[1].Flags.Dir
                    /\ IF match
                       THEN r.emit[1] = cf
                       ELSE /\ r.emit[1].Name = n
                            /\ r.emit[1].Version = TickValue(clock, 0)
                            /\ r.emit[1].Flags.Perms =
                                  IF walker.ignorePerms THEN 511 ELSE ModePerm(n)

\* The version the store holds for name n of peer i is the version of the
\* peer's entry in memory, or the name is in neither.
SameVersion(i, n) ==
    \/ /\ InStore(i, n)
       /\ i \in Reporting(n)
       /\ UnmarshalXDR(db[i][repo][n]).Version = Reported(i, n).Version
    \/ /\ ~InStore(i, n)
       /\ i \notin Reporting(n)

\* C21: once the concurrent calls of Replace and Update have all returned,
\* the store and the in-memory index of every peer hold the same version for
\* every name, whatever the interleaving was.
RacingCallsAgree ==
    (~fatal /\ InFlight = {}) =>
        \A i \in Peers, n \in Names : SameVersion(i, n)

\* C22: no peer index holds a dangling reference: every key a peer's index
\* maps a name to is a record of files with usage at least 1, and Get of
\* that peer and name returns a file of that name.
NoDanglingReferences ==
    \A i \in Peers : \A n \in DOMAIN remoteKey[i].keys :
        /\ Reported(i, n) \in DOMAIN files
        /\ files[Reported(i, n)].Usage >= 1
        /\ Get(i, n).Name = n

\* Both peers refer to one record of usage 2 after MaxChanges calls.
SharedRecordWitness ==
    /\ ~fatal
    /\ TotalChanges = MaxChanges
    /\ \E n \in Names :
          /\ Reporting(n) = Peers
          /\ Reported(0, n) = Reported(1, n)
          /\ Reported(0, n) \in DOMAIN files
          /\ files[Reported(0, n)].Usage = 2
          /\ Get(1, n).Name = n

\* A call of Replace, ReplaceWithDelete or Update on peer id takes this step:
\* its store transaction, accepted by the store or not, or its locked part.
MutatingCall(id) ==
    \E t \in Threads :
        \/ \E fs \in SmallLists :
              \/ ReplaceStore(t, id, fs)
              \/ ReplaceWithDeleteStore(t, id, fs)
              \/ UpdateStore(t, id, fs)
              \/ ReplaceStoreError(t, id, fs)
              \/ ReplaceWithDeleteStoreError(t, id, fs)
              \/ UpdateStoreError(t, id, fs)
        \/ /\ inflight[t] # Idle
           /\ inflight[t].id = id
           /\ \/ ReplaceLocked(t)
              \/ ReplaceWithDeleteLocked(t)
              \/ UpdateLocked(t)

\* C23: a mutating call on peer i leaves the index and the change counter
\* of every other peer j as they were.
OtherPeersAreUntouched ==
    [][\A id \in Peers :
          MutatingCall(id) =>
              \A j \in Peers \ {id} :
                  /\ remoteKey'[j] = remoteKey[j]
                  /\ changes'[j] = changes[j]]_vars

\* Peer 1 has been changed twice since the one call that filled the index of
\* peer 0, which still holds its entries.
OtherPeerKeptWitness ==
    /\ ~fatal
    /\ changes[0] = 1
    /\ changes[1] = 2
    /\ DOMAIN remoteKey[0].keys # {}
    /\ DOMAIN remoteKey[1].keys # {}
    /\ remoteKey[0].keys # remoteKey[1].keys

\* A call that ends the process as a programmer error takes a step: Replace
\* or ReplaceWithDelete with an id above MaxConnID, or, the caller being the
\* only goroutine, the store transaction or the locked part of an Update
\* with such an id or for a peer that has had no replace.
RejectedCall ==
    \E t \in OneCaller :
        \/ \E id \in OutOfRangeIDs, fs \in SmallLists :
              \/ ReplaceOutOfRange(t, id, fs)
              \/ ReplaceWithDeleteOutOfRange(t, id, fs)
              \/ UpdateStore(t, id, fs)
        \/ \E id \in Peers, fs \in SmallLists :
              remoteKey[id].nil /\ UpdateStore(t, id, fs)
        \/ UpdateLocked(t) /\ fatal'

\* C24: a call rejected as a programmer error is rejected before anything
\* is written: no step of it changes the entries the store holds.
RejectedCallWritesNothing ==
    [][RejectedCall => db' = db]_vars

====
